---------------------------- MODULE Spec2Model ----------------------------
(***************************************************************************)
(* A model of the strands_a2a repository: src/factor.py (the single-agent  *)
(* script) and src/server.py (the two-agent launcher).                     *)
(*                                                                         *)
(*   SpecFactors  the find_factors tool (both copies), applied to every    *)
(*                input text up to MaxLen characters                       *)
(*   SpecGate     the authenticate_requests middleware of each of the      *)
(*                three FastAPI apps, with several requests in flight      *)
(*   SpecStartup  the start-up sequence of each entry point, up to         *)
(*                uvicorn.run or the error that ends it                    *)
(*   SpecMain     main() of server.py: the parent, its two child           *)
(*                processes and KeyboardInterrupt                          *)
(***************************************************************************)
EXTENDS Integers, Sequences, FiniteSets, TLC

VARIABLES
    \* ---- find_factors
    module,         \* which copy of find_factors is called
    input_text,     \* the argument, a sequence of characters
    result,         \* the returned dict, or NoResult before the call
    \* ---- authenticate_requests
    app,            \* which FastAPI app (which of the three gates)
    API_PASSWORD,   \* the secret the closure captured at start-up
    requests,       \* the requests received so far, in arrival order
    \* ---- start-up
    entry,          \* which entry point is starting
    env,            \* os.environ: API_PASSWORD and LLM_SERVICE_API_KEY
    argv,           \* the command line (factor.py only)
    spc,            \* position in the start-up code
    \* ---- main()
    pc,             \* position of the parent in main()
    child,          \* state of the two multiprocessing.Process objects
    interrupts,     \* KeyboardInterrupts delivered to the parent so far
    hist            \* what the parent has done and seen (history)

factVars  == <<module, input_text, result>>
gateVars  == <<app, API_PASSWORD, requests>>
startVars == <<entry, env, argv, spc>>
mainVars  == <<pc, child, interrupts, hist>>
vars      == <<module, input_text, result, app, API_PASSWORD, requests,
               entry, env, argv, spc, pc, child, interrupts, hist>>

(***************************************************************************)
(* Bounds of the model.                                                    *)
(***************************************************************************)
MaxLen == 3          \* longest input text given to find_factors
MaxRequests == 2     \* requests one app receives in a behaviour
MaxInterrupts == 2   \* KeyboardInterrupts delivered to the parent

(***************************************************************************)
(* Python values.  None is the value of an absent header / variable.       *)
(***************************************************************************)
None == "<None>"
NoResult == [status |-> "<not called>", content |-> <<>>]

-----------------------------------------------------------------------------
(***************************************************************************)
(* find_factors.  A text is a sequence of characters.  re's \d on a str    *)
(* pattern matches every Unicode decimal digit (category Nd), and int()    *)
(* accepts the same characters, so the alphabet holds one non-ASCII        *)
(* digit, U+0663 ARABIC-INDIC DIGIT THREE, beside "0", "1", "2".           *)
(***************************************************************************)
Digits == {"0", "1", "2", "U+0663"}
Chars  == Digits \cup {"-", "a"}

IsDigit(c) == c \in Digits

DigitValue(c) ==
    CASE c = "0" -> 0
      [] c = "1" -> 1
      [] c = "2" -> 2
      [] c = "U+0663" -> 3

\* re.findall(r'\d+', s): the maximal digit runs of s, left to right.
\* i is the scan position, cur the run being read, acc the runs found.
RECURSIVE findall_scan(_, _, _, _)
findall_scan(s, i, cur, acc) ==
    IF i > Len(s)
    THEN IF cur # <<>> THEN Append(acc, cur) ELSE acc
    ELSE IF IsDigit(s[i])
         THEN findall_scan(s, i + 1, Append(cur, s[i]), acc)
         ELSE findall_scan(s, i + 1, <<>>,
                           IF cur # <<>> THEN Append(acc, cur) ELSE acc)

\* A faulty variant of re_findall: r'\d*', which also matches the empty string at
\* the end of the text.
re_findall_star(s) == findall_scan(s, 1, <<>>, <<>>) \o << <<>> >>

\* A faulty variant of re_findall: r'[1-9]\d*', a run starts at a non-zero digit.
RECURSIVE lstrip_zeros(_)
lstrip_zeros(run) ==
    IF run # <<>> /\ DigitValue(run[1]) = 0 THEN lstrip_zeros(Tail(run))
    ELSE run

re_findall_nonzero(s) ==
    SelectSeq([k \in 1..Len(findall_scan(s, 1, <<>>, <<>>)) |->
                   lstrip_zeros(findall_scan(s, 1, <<>>, <<>>)[k])],
              LAMBDA run : run # <<>>)

re_findall(s) == findall_scan(s, 1, <<>>, <<>>)

\* int(run): base 10, leading zeros allowed.
RECURSIVE int(_)
int(run) ==
    IF run = <<>> THEN 0
    ELSE int(SubSeq(run, 1, Len(run) - 1)) * 10 + DigitValue(run[Len(run)])

\* str(n) for n >= 0: ASCII digits, no leading zeros.
DigitString(d) ==
    CASE d = 0 -> "0" [] d = 1 -> "1" [] d = 2 -> "2" [] d = 3 -> "3"
      [] d = 4 -> "4" [] d = 5 -> "5" [] d = 6 -> "6" [] d = 7 -> "7"
      [] d = 8 -> "8" [] d = 9 -> "9"

RECURSIVE str(_)
str(n) == IF n < 10 THEN DigitString(n)
          ELSE str(n \div 10) \o DigitString(n % 10)

\* range(a, b): a, a+1, ..., b-1
range(a, b) == [k \in 1..(b - a) |-> a + k - 1]

\* sep.join(parts)
RECURSIVE join(_, _)
join(sep, parts) ==
    IF parts = <<>> THEN ""
    ELSE IF Len(parts) = 1 THEN parts[1]
    ELSE parts[1] \o sep \o join(sep, Tail(parts))

\* A faulty variant of factors_loop: range(1, number), the number itself left out.
factors_loop_exclusive(number) ==
    SelectSeq(range(1, number), LAMBDA i : number % i = 0)

\* The loop of lines 46-49: for i in range(1, number + 1), keep the i that
\* divide number, in the order visited.
factors_loop(number) ==
    SelectSeq(range(1, number + 1), LAMBDA i : number % i = 0)

\* find_factors of src/factor.py
find_factors(text) ==
    LET numbers == re_findall(text) IN
    IF numbers = <<>>
    THEN [status |-> "error",
          content |-> <<[text |-> "No number found in the input text."]>>]
    ELSE LET number == int(numbers[1]) IN
         IF number <= 0
         THEN [status |-> "error",
               content |-> <<[text |->
                   "Please provide a positive integer greater than 0."]>>]
         ELSE LET factors == factors_loop(number)
                  factors_str ==
                      join(", ", [k \in 1..Len(factors) |-> str(factors[k])])
                  result_text ==
                      "The factors of " \o str(number) \o " are: " \o factors_str
              IN [status |-> "success", content |-> <<[text |-> result_text]>>]

\* find_factors of src/server.py (the same code, a second copy)
server_find_factors(text) ==
    LET numbers == re_findall(text) IN
    IF numbers = <<>>
    THEN [status |-> "error",
          content |-> <<[text |-> "No number found in the input text."]>>]
    ELSE LET number == int(numbers[1]) IN
         IF number <= 0
         THEN [status |-> "error",
               content |-> <<[text |->
                   "Please provide a positive integer greater than 0."]>>]
         ELSE LET factors == factors_loop(number)
                  factors_str ==
                      join(", ", [k \in 1..Len(factors) |-> str(factors[k])])
                  result_text ==
                      "The factors of " \o str(number) \o " are: " \o factors_str
              IN [status |-> "success", content |-> <<[text |-> result_text]>>]

Modules == {"factor.py", "server.py"}

Texts == UNION {[1..n -> Chars] : n \in 0..MaxLen}

\* The variables of the other parts, at rest.
GateIdle  == app = None /\ API_PASSWORD = None /\ requests = <<>>
StartIdle == entry = None /\ env = None /\ argv = None /\ spc = None
MainIdle  == pc = None /\ child = None /\ interrupts = 0 /\ hist = None

FactorsInit ==
    /\ module \in Modules
    /\ input_text \in Texts
    /\ result = NoResult
    /\ GateIdle /\ StartIdle /\ MainIdle

\* The agent calls the tool on input_text.
CallFindFactors ==
    /\ result = NoResult
    /\ result' = IF module = "factor.py" THEN find_factors(input_text)
                 ELSE server_find_factors(input_text)
    /\ UNCHANGED <<module, input_text>>
    /\ UNCHANGED <<gateVars, startVars, mainVars>>

FactorsNext == CallFindFactors

SpecFactors == FactorsInit /\ [][FactorsNext]_vars


-----------------------------------------------------------------------------
(***************************************************************************)
(* authenticate_requests.  A request is its URL path and the value of its  *)
(* Authorization header (None when the header is absent).  The middleware  *)
(* runs without suspending up to `await call_next(request)` or up to the   *)
(* return of the 401 response; it resumes when call_next returns.          *)
(***************************************************************************)
Apps == {"factor.py", "calculator", "factor"}

Secrets == {"s3cret", "S3CRET"}

AgentCardPath == "/.well-known/agent-card.json"

Paths == {AgentCardPath, "/", "/.well-known/agent-card.json/"}

AuthorizationValues ==
    {None, "Bearer s3cret", "Bearer S3CRET", "bearer s3cret",
     "Bearer  s3cret", "Basic s3cret", "Bearer ", "s3cret"}

Requests == [path : Paths, Authorization : AuthorizationValues]

\* request.headers.get("Authorization")
headers_get(request) == request.Authorization

\* JSONResponse(status_code=401, content={...})
Unauthorized ==
    [status_code |-> 401,
     content |-> [error |-> "Unauthorized",
                  message |-> "Invalid or missing API password"]]

\* What the application behind the gate may answer (opaque here).
DownstreamResponses ==
    {[status_code |-> 200, content |-> [result |-> "ok"]],
     [status_code |-> 404, content |-> [detail |-> "Not Found"]]}

NoResponse == [status_code |-> 0, content |-> [pending |-> TRUE]]

\* The middleware's run up to its first suspension or return:
\*   header_read  whether request.headers.get was evaluated
\*   call_next    the arguments call_next was invoked with, in order
\*   response     the response returned, NoResponse while awaiting call_next
PassOn(request, read) ==
    [header_read |-> read, call_next |-> <<request>>, response |-> NoResponse]

Deny(read) ==
    [header_read |-> read, call_next |-> <<>>, response |-> Unauthorized]

\* A faulty gate: the exempt path is tested with startswith.
gate_prefix_exempt(request, password) ==
    IF request.path \in {AgentCardPath, AgentCardPath \o "/"}
    THEN PassOn(request, FALSE)
    ELSE IF headers_get(request) # "Bearer " \o password
         THEN Deny(TRUE)
         ELSE PassOn(request, TRUE)

\* A faulty gate: the header is required before the path is looked at.
gate_header_first(request, password) ==
    IF headers_get(request) = None
    THEN Deny(TRUE)
    ELSE IF request.path = AgentCardPath
         THEN PassOn(request, TRUE)
         ELSE IF headers_get(request) # "Bearer " \o password
              THEN Deny(TRUE)
              ELSE PassOn(request, TRUE)

\* A faulty gate: the credential is removed from the request passed on.
gate_strip_header(request, password) ==
    IF request.path = AgentCardPath
    THEN PassOn(request, FALSE)
    ELSE IF headers_get(request) # "Bearer " \o password
         THEN Deny(TRUE)
         ELSE PassOn([request EXCEPT !.Authorization = None], TRUE)

\* A faulty gate: a session; once a credential was accepted, later requests pass.
gate_session(request, password) ==
    IF request.path = AgentCardPath
    THEN PassOn(request, FALSE)
    ELSE IF /\ headers_get(request) # "Bearer " \o password
            /\ ~\E i \in 1..Len(requests) :
                   /\ requests[i].request.path # AgentCardPath
                   /\ requests[i].call_next # <<>>
         THEN Deny(TRUE)
         ELSE PassOn(request, TRUE)

\* authenticate_requests of src/factor.py
authenticate_requests(request, password) ==
    IF request.path = "/.well-known/agent-card.json"
    THEN PassOn(request, FALSE)
    ELSE LET auth_header == headers_get(request) IN
         IF auth_header # "Bearer " \o password
         THEN Deny(TRUE)
         ELSE PassOn(request, TRUE)

\* authenticate_requests of start_calculator_agent, src/server.py
calculator_authenticate_requests(request, password) ==
    IF request.path = "/.well-known/agent-card.json"
    THEN PassOn(request, FALSE)
    ELSE LET auth_header == headers_get(request) IN
         IF auth_header # "Bearer " \o password
         THEN Deny(TRUE)
         ELSE PassOn(request, TRUE)

\* authenticate_requests of start_factor_agent, src/server.py
factor_authenticate_requests(request, password) ==
    IF request.path = "/.well-known/agent-card.json"
    THEN PassOn(request, FALSE)
    ELSE LET auth_header == headers_get(request) IN
         IF auth_header # "Bearer " \o password
         THEN Deny(TRUE)
         ELSE PassOn(request, TRUE)

\* The middleware registered on the app.
Middleware(request) ==
    CASE app = "factor.py"  -> authenticate_requests(request, API_PASSWORD)
      [] app = "calculator" ->
             calculator_authenticate_requests(request, API_PASSWORD)
      [] app = "factor"     ->
             factor_authenticate_requests(request, API_PASSWORD)

FactIdle == module = None /\ input_text = <<>> /\ result = NoResult

\* The app is up: API_PASSWORD was read and found non-empty at start-up.
GateInit ==
    /\ app \in Apps
    /\ API_PASSWORD \in Secrets
    /\ requests = <<>>
    /\ FactIdle /\ StartIdle /\ MainIdle

\* A request arrives and the middleware runs up to its first suspension.
HandleRequest(request) ==
    /\ Len(requests) < MaxRequests
    /\ requests' = Append(requests,
           [request |-> request, handler_response |-> NoResponse]
               @@ Middleware(request))
    /\ UNCHANGED <<app, API_PASSWORD>>
    /\ UNCHANGED <<factVars, startVars, mainVars>>

\* call_next returns for request i and the middleware returns that response.
CallNextReturns(i, response) ==
    /\ requests[i].call_next # <<>>
    /\ requests[i].response = NoResponse
    /\ requests' = [requests EXCEPT ![i].handler_response = response,
                                    ![i].response = response]
    /\ UNCHANGED <<app, API_PASSWORD>>
    /\ UNCHANGED <<factVars, startVars, mainVars>>

GateNext ==
    \/ \E request \in Requests : HandleRequest(request)
    \/ \E i \in 1..Len(requests), response \in DownstreamResponses :
           CallNextReturns(i, response)

SpecGate == GateInit /\ [][GateNext]_vars

-----------------------------------------------------------------------------
(***************************************************************************)
(* Start-up.  factor.py runs its module body as a script; in server.py     *)
(* each child process runs start_calculator_agent or start_factor_agent.   *)
(* spc.line is the statement about to run; "listening" is uvicorn.run      *)
(* serving; "exited" is the process ended by the exception in spc.error.   *)
(***************************************************************************)
Entries == {"factor.py", "start_calculator_agent", "start_factor_agent"}

\* os.environ: each variable unset (None), empty or set.
Envs == [API_PASSWORD : {None, "", "s3cret"},
         LLM_SERVICE_API_KEY : {None, "", "sk-key"}]

\* Command lines of factor.py: none, a port, a port argparse rejects, help.
Argvs == {<<>>, <<"-p", "9100">>, <<"-p", "abc">>, <<"--help">>}

DefaultPort == 9001
CalculatorPort == 9000
FactorPort == 9001
OtherPort == 9100

NoError == "<running>"

\* A faulty variant of not_: `is None`, an empty value passes.
is_none(value) == value = None

\* Python's `not value` for a str or None.
not_(value) == value = None \/ value = ""

StartupInit ==
    /\ entry \in Entries
    /\ env \in Envs
    /\ argv \in IF entry = "factor.py" THEN Argvs ELSE {<<>>}
    /\ spc = CASE entry = "factor.py" ->
                      [line |-> "parse_args", port |-> 0, error |-> NoError]
               [] entry = "start_calculator_agent" ->
                      [line |-> "read_password", port |-> CalculatorPort,
                       error |-> NoError]
               [] entry = "start_factor_agent" ->
                      [line |-> "read_password", port |-> FactorPort,
                       error |-> NoError]
    /\ FactIdle /\ GateIdle /\ MainIdle

StartupStep(next) ==
    /\ spc' = next
    /\ UNCHANGED <<entry, env, argv>>
    /\ UNCHANGED <<factVars, gateVars, mainVars>>

\* factor.py: parser.parse_args()
ParseArgs ==
    /\ entry = "factor.py" /\ spc.line = "parse_args"
    /\ StartupStep(
         CASE argv = <<>> ->
                  [spc EXCEPT !.line = "read_password", !.port = DefaultPort]
           [] argv = <<"-p", "9100">> ->
                  [spc EXCEPT !.line = "read_password", !.port = OtherPort]
           [] argv = <<"-p", "abc">> ->
                  [spc EXCEPT !.line = "exited", !.error = "SystemExit(2)"]
           [] argv = <<"--help">> ->
                  [spc EXCEPT !.line = "exited", !.error = "SystemExit(0)"])

\* API_PASSWORD = os.getenv('API_PASSWORD'); if not API_PASSWORD: raise
ReadPassword ==
    /\ spc.line = "read_password"
    /\ StartupStep(
         IF not_(env.API_PASSWORD)
         THEN [spc EXCEPT !.line = "exited",
                          !.error = "ValueError: API_PASSWORD"]
         ELSE [spc EXCEPT !.line = "read_key"])

\* litellm_api_key = os.environ.get("LLM_SERVICE_API_KEY"); if not ...: raise
\* (in server.py: create_llm_model())
ReadKey ==
    /\ spc.line = "read_key"
    /\ StartupStep(
         IF not_(env.LLM_SERVICE_API_KEY)
         THEN [spc EXCEPT !.line = "exited",
                          !.error = "ValueError: LLM_SERVICE_API_KEY"]
         ELSE [spc EXCEPT !.line = "create_agent"])

\* LiteLLMModel(...), Agent(...)
CreateAgent ==
    /\ spc.line = "create_agent"
    /\ StartupStep([spc EXCEPT !.line = IF entry = "factor.py"
                                        THEN "version_info" ELSE "create_app"])

\* factor.py: the version probe; its exceptions are caught and printed.
VersionInfo ==
    /\ spc.line = "version_info"
    /\ StartupStep([spc EXCEPT !.line = "create_app"])

\* A2AServer(...), to_fastapi_app(), @app.middleware("http")
CreateApp ==
    /\ spc.line = "create_app"
    /\ StartupStep([spc EXCEPT !.line = "uvicorn_run"])

\* uvicorn.run(app, host="0.0.0.0", port=port)
UvicornRun ==
    /\ spc.line = "uvicorn_run"
    /\ StartupStep([spc EXCEPT !.line = "listening"])

StartupNext ==
    \/ ParseArgs
    \/ ReadPassword
    \/ ReadKey
    \/ CreateAgent
    \/ VersionInfo
    \/ CreateApp
    \/ UvicornRun

SpecStartup == StartupInit /\ [][StartupNext]_vars

-----------------------------------------------------------------------------
(***************************************************************************)
(* main() of server.py.  pc is the statement the parent is about to run    *)
(* (or is blocked in); a child is a multiprocessing.Process.               *)
(*                                                                         *)
(*   child state   initial     created, not started                       *)
(*                 starting    running start_*_agent before uvicorn.run   *)
(*                 serving     in uvicorn.run                             *)
(*                 blocked     alive and stuck, not serving               *)
(*                 failed      ended by a start-up exception              *)
(*                 crashed     ended on its own while serving             *)
(*                 terminated  ended by the SIGTERM of terminate()        *)
(*                                                                         *)
(* KeyboardInterrupt is raised in the parent between any two statements    *)
(* and inside the blocking ones.  Only lines 203-204 are inside the try.   *)
(***************************************************************************)
Children == {"calculator", "factor"}

Alive(c) == child[c].state \in {"starting", "serving", "blocked"}

Dead(c) == child[c].state \in {"failed", "crashed", "terminated"}

Started(c) == child[c].state # "initial"

InTry == {"join_calculator", "join_factor"}

OutsideTry ==
    {"start_calculator", "sleep", "start_factor",
     "terminate_calculator", "terminate_factor",
     "handler_join_calculator", "handler_join_factor", "sys_exit"}

\* main() is over: it returned, called sys.exit(0), or let the
\* KeyboardInterrupt out.
MainEnded == {"returned", "exit_0", "uncaught_KeyboardInterrupt"}

MainInit ==
    /\ pc = "start_calculator"
    /\ child = [c \in Children |->
                   [state |-> "initial",
                    port |-> IF c = "calculator" THEN CalculatorPort
                             ELSE FactorPort,
                    sigterm |-> FALSE]]
    /\ interrupts = 0
    /\ hist = [interrupted_at |-> <<>>, terminate_called |-> {}]
    /\ FactIdle /\ GateIdle /\ StartIdle

Parent(next, children) ==
    /\ pc' = next
    /\ child' = children
    /\ UNCHANGED <<interrupts, hist>>
    /\ UNCHANGED <<factVars, gateVars, startVars>>

\* A faulty variant of JoinCalculator: once the calculator is gone the parent stops
\* the factor agent too.
JoinCalculatorStopAll ==
    /\ pc = "join_calculator"
    /\ Dead("calculator")
    /\ Parent("join_factor", [child EXCEPT !["factor"].sigterm = TRUE])

\* calculator_process.start()
StartCalculator ==
    /\ pc = "start_calculator"
    /\ Parent("sleep", [child EXCEPT !["calculator"].state = "starting"])

\* time.sleep(1)
Sleep ==
    /\ pc = "sleep"
    /\ Parent("start_factor", child)

\* factor_process.start()
StartFactor ==
    /\ pc = "start_factor"
    /\ Parent("join_calculator", [child EXCEPT !["factor"].state = "starting"])

\* calculator_process.join(), inside the try
JoinCalculator ==
    /\ pc = "join_calculator"
    /\ Dead("calculator")
    /\ Parent("join_factor", child)

\* factor_process.join(), inside the try; main() then returns
JoinFactor ==
    /\ pc = "join_factor"
    /\ Dead("factor")
    /\ Parent("returned", child)

\* KeyboardInterrupt raised in the parent: caught by the except clause if
\* the parent is inside the try, otherwise it leaves main().
KeyboardInterrupt ==
    /\ pc \in InTry \cup OutsideTry
    /\ interrupts < MaxInterrupts
    /\ interrupts' = interrupts + 1
    /\ hist' = [hist EXCEPT !.interrupted_at = Append(@, pc)]
    /\ pc' = IF pc \in InTry THEN "terminate_calculator"
             ELSE "uncaught_KeyboardInterrupt"
    /\ UNCHANGED child
    /\ UNCHANGED <<factVars, gateVars, startVars>>

\* Process.terminate(): SIGTERM to the child if it is still running.
Terminate(c, next) ==
    /\ pc' = next
    /\ child' = [child EXCEPT ![c].sigterm = @ \/ Alive(c)]
    /\ hist' = [hist EXCEPT !.terminate_called = @ \cup {c}]
    /\ UNCHANGED interrupts
    /\ UNCHANGED <<factVars, gateVars, startVars>>

\* except KeyboardInterrupt: calculator_process.terminate()
HandlerTerminateCalculator ==
    /\ pc = "terminate_calculator"
    /\ Terminate("calculator", "terminate_factor")

\* factor_process.terminate()
HandlerTerminateFactor ==
    /\ pc = "terminate_factor"
    /\ Terminate("factor", "handler_join_calculator")

\* calculator_process.join(), in the handler
HandlerJoinCalculator ==
    /\ pc = "handler_join_calculator"
    /\ Dead("calculator")
    /\ Parent("handler_join_factor", child)

\* factor_process.join(), in the handler
HandlerJoinFactor ==
    /\ pc = "handler_join_factor"
    /\ Dead("factor")
    /\ Parent("sys_exit", child)

\* sys.exit(0)
SysExit ==
    /\ pc = "sys_exit"
    /\ Parent("exit_0", child)

ChildStep(c, state) ==
    /\ child' = [child EXCEPT ![c].state = state]
    /\ UNCHANGED <<pc, interrupts, hist>>
    /\ UNCHANGED <<factVars, gateVars, startVars>>

\* The child reaches uvicorn.run.
ChildServes(c) ==
    /\ child[c].state = "starting"
    /\ ChildStep(c, "serving")

\* The child's start-up raises (a missing API_PASSWORD, for one).
ChildFails(c) ==
    /\ child[c].state = "starting"
    /\ ChildStep(c, "failed")

\* The child hangs.
ChildBlocks(c) ==
    /\ child[c].state \in {"starting", "serving"}
    /\ ChildStep(c, "blocked")

\* The child dies while serving.
ChildCrashes(c) ==
    /\ child[c].state = "serving"
    /\ ChildStep(c, "crashed")

\* The SIGTERM sent by terminate() ends the child.
ChildTerminated(c) ==
    /\ Alive(c)
    /\ child[c].sigterm
    /\ ChildStep(c, "terminated")

MainNext ==
    \/ StartCalculator
    \/ Sleep
    \/ StartFactor
    \/ JoinCalculator
    \/ JoinFactor
    \/ KeyboardInterrupt
    \/ HandlerTerminateCalculator
    \/ HandlerTerminateFactor
    \/ HandlerJoinCalculator
    \/ HandlerJoinFactor
    \/ SysExit
    \/ \E c \in Children : ChildServes(c)
    \/ \E c \in Children : ChildFails(c)
    \/ \E c \in Children : ChildBlocks(c)
    \/ \E c \in Children : ChildCrashes(c)
    \/ \E c \in Children : ChildTerminated(c)

SpecMain == MainInit /\ [][MainNext]_vars

-----------------------------------------------------------------------------
(***************************************************************************)
(* What the claims about the gate speak of, stated on the request and the  *)
(* configured secret and not through the middleware's code.                *)
(***************************************************************************)
ExpectedHeader ==
    CASE API_PASSWORD = "s3cret" -> "Bearer s3cret"
      [] API_PASSWORD = "S3CRET" -> "Bearer S3CRET"

Received == 1..Len(requests)

OnExemptPath(r) == r.request.path = "/.well-known/agent-card.json"

GoodCredential(r) == r.request.Authorization = ExpectedHeader

Forwarded(r) == r.call_next # <<>>

\* C1: a request to a path other than "/.well-known/agent-card.json" whose
\* Authorization header is missing or differs in any way from
\* "Bearer <API_PASSWORD>" is answered 401 with the body {"error":
\* "Unauthorized", "message": "Invalid or missing API password"}, and
\* call_next is never invoked for it.
C1_DeniedWith401 ==
    \A i \in Received :
        (~OnExemptPath(requests[i]) /\ ~GoodCredential(requests[i])) =>
            /\ requests[i].response.status_code = 401
            /\ requests[i].response.content =
                   [error |-> "Unauthorized",
                    message |-> "Invalid or missing API password"]
            /\ requests[i].call_next = <<>>
            /\ requests[i].handler_response = NoResponse

\* Denied: the right secret under the scheme in the wrong case, and the
\* right header on a path one character longer than the exempt one.
C1_Witness ==
    /\ API_PASSWORD = "s3cret"
    /\ Len(requests) = 2
    /\ requests[1].request = [path |-> "/", Authorization |-> "bearer s3cret"]
    /\ requests[1].response = Unauthorized
    /\ requests[2].request = [path |-> "/.well-known/agent-card.json/",
                              Authorization |-> "Bearer S3CRET"]
    /\ requests[2].response = Unauthorized

\* C2: a request to exactly "/.well-known/agent-card.json" is passed to
\* call_next, once and as received, and answered with what call_next
\* returned, whatever its Authorization header; the header is not read and
\* the answer is never the gate's 401.
C2_ExemptPathForwarded ==
    \A i \in Received :
        OnExemptPath(requests[i]) =>
            /\ ~requests[i].header_read
            /\ requests[i].call_next = <<requests[i].request>>
            /\ requests[i].response = requests[i].handler_response
            /\ requests[i].response # Unauthorized
            /\ requests[i].response.status_code # 401

\* The card is served to a request without a header and to one with a
\* wrong one.
C2_Witness ==
    /\ Len(requests) = 2
    /\ requests[1].request =
           [path |-> "/.well-known/agent-card.json", Authorization |-> None]
    /\ requests[1].response.status_code = 200
    /\ requests[2].request = [path |-> "/.well-known/agent-card.json",
                              Authorization |-> "Basic s3cret"]
    /\ requests[2].response.status_code = 200

\* C3: a request to a non-exempt path whose Authorization header is exactly
\* "Bearer <API_PASSWORD>" is passed to call_next exactly once, unmodified,
\* and the gate returns exactly the response call_next produced.
C3_ApprovedUnchanged ==
    \A i \in Received :
        (~OnExemptPath(requests[i]) /\ GoodCredential(requests[i])) =>
            /\ requests[i].call_next = <<requests[i].request>>
            /\ requests[i].response = requests[i].handler_response
            /\ \/ requests[i].response = NoResponse
               \/ requests[i].response \in DownstreamResponses

\* An approved request whose downstream answer, a 404, comes back as it is.
C3_Witness ==
    /\ API_PASSWORD = "S3CRET"
    /\ \E i \in Received :
        /\ requests[i].request = [path |-> "/", Authorization |-> "Bearer S3CRET"]
        /\ requests[i].handler_response.status_code = 404
        /\ requests[i].response.status_code = 404

\* C10: the gate keeps no state between requests.  Among the requests an
\* app has received, in any order and interleaving: two requests with the
\* same path and header get the same decision; a request with a bad or
\* missing credential is denied although another was approved; a request
\* with the correct header is approved although another was denied.
C10_Stateless ==
    \A i \in Received : \A j \in Received \ {i} :
        /\ requests[i].request = requests[j].request =>
               Forwarded(requests[i]) = Forwarded(requests[j])
        /\ ( /\ ~OnExemptPath(requests[i]) /\ Forwarded(requests[i])
             /\ ~OnExemptPath(requests[j]) /\ ~GoodCredential(requests[j]) )
               => ~Forwarded(requests[j])
        /\ ( /\ ~Forwarded(requests[i])
             /\ ~OnExemptPath(requests[j]) /\ GoodCredential(requests[j]) )
               => Forwarded(requests[j])

\* A request is approved and answered; the next one, with no header, is
\* denied.
C10_Witness ==
    /\ Len(requests) = 2
    /\ ~OnExemptPath(requests[1]) /\ GoodCredential(requests[1])
    /\ requests[1].response.status_code = 200
    /\ requests[2].request = [path |-> "/", Authorization |-> None]
    /\ requests[2].response = Unauthorized

-----------------------------------------------------------------------------
(***************************************************************************)
(* What the claims about find_factors speak of, stated on the text itself  *)
(* and not through the code's scan: the first maximal run of decimal       *)
(* digits and the number it denotes.                                       *)
(***************************************************************************)
HasDigit(s) == \E i \in 1..Len(s) : s[i] \in Digits

FirstRunStart(s) ==
    CHOOSE p \in 1..Len(s) :
        s[p] \in Digits /\ \A k \in 1..(p - 1) : s[k] \notin Digits

FirstRunEnd(s) ==
    CHOOSE q \in FirstRunStart(s)..Len(s) :
        /\ \A k \in FirstRunStart(s)..q : s[k] \in Digits
        /\ q = Len(s) \/ s[q + 1] \notin Digits

RECURSIVE Pow10(_)
Pow10(e) == IF e = 0 THEN 1 ELSE 10 * Pow10(e - 1)

RECURSIVE PlaceSum(_, _, _)
PlaceSum(s, p, q) ==
    IF p > q THEN 0
    ELSE DigitValue(s[p]) * Pow10(q - p) + PlaceSum(s, p + 1, q)

FirstRunValue(s) == PlaceSum(s, FirstRunStart(s), FirstRunEnd(s))

Called == result # NoResult

NoNumberFound ==
    [status |-> "error",
     content |-> <<[text |-> "No number found in the input text."]>>]

NonPositiveInput ==
    [status |-> "error",
     content |-> <<[text |->
         "Please provide a positive integer greater than 0."]>>]

\* C4: when the first maximal digit run of the input denotes N > 0, the
\* call returns success, the divisors listed are exactly the i in 1..N with
\* N % i = 0, strictly ascending, first 1 and last N, and the text is
\* "The factors of N are: " followed by them joined by ", ".  Signs,
\* leading zeros, later runs and surrounding text change nothing.
C4_FactorsExact ==
    (Called /\ HasDigit(input_text) /\ FirstRunValue(input_text) > 0) =>
        LET N  == FirstRunValue(input_text)
            fs == factors_loop(N)
            text == result.content[1].text
        IN /\ result.status = "success"
           /\ Len(result.content) = 1
           /\ {fs[k] : k \in 1..Len(fs)} = {i \in 1..N : N % i = 0}
           /\ \A k \in 1..(Len(fs) - 1) : fs[k] < fs[k + 1]
           /\ fs[1] = 1 /\ fs[Len(fs)] = N
           /\ text = "The factors of " \o str(N) \o " are: "
                       \o join(", ", [k \in 1..Len(fs) |-> str(fs[k])])
           /\ input_text = <<"1", "2">> =>
                  text = "The factors of 12 are: 1, 2, 3, 4, 6, 12"
           /\ input_text = <<"0", "1", "2">> =>
                  text = "The factors of 12 are: 1, 2, 3, 4, 6, 12"
           /\ input_text = <<"-", "2">> => text = "The factors of 2 are: 1, 2"
           /\ input_text = <<"1", "a", "2">> => text = "The factors of 1 are: 1"
           /\ input_text = <<"a", "2", "1">> =>
                  text = "The factors of 21 are: 1, 3, 7, 21"
           /\ input_text = <<"U+0663">> => text = "The factors of 3 are: 1, 3"

\* A leading zero and a sign before the run, and a composite N.
C4_Witness ==
    /\ Called /\ result.status = "success"
    /\ input_text = <<"-", "1", "2">>

\* C5: for an input with no decimal digit (the empty text included) the
\* call returns the error "No number found in the input text." as data.
C5_NoNumberFound ==
    (Called /\ ~HasDigit(input_text)) => result = NoNumberFound

C5_Witness ==
    /\ Called /\ input_text = <<"-", "a">> /\ result.status = "error"

\* C6: the call returns the error "Please provide a positive integer
\* greater than 0." exactly when the first maximal digit run denotes zero,
\* whatever follows it.
C6_ZeroRejected ==
    Called =>
        ((HasDigit(input_text) /\ FirstRunValue(input_text) = 0)
            <=> result = NonPositiveInput)

\* The first run is "0", a later run is positive.
C6_Witness ==
    /\ Called /\ input_text = <<"0", "a", "2">> /\ result = NonPositiveInput

-----------------------------------------------------------------------------
(***************************************************************************)
(* What the claim about start-up speaks of.                                *)
(***************************************************************************)
Missing(name) == env[name] = None \/ env[name] = ""

ConfigurationMissing ==
    Missing("API_PASSWORD") \/ Missing("LLM_SERVICE_API_KEY")

Ended == spc.line = "exited"

EndedByValueError ==
    spc.error \in {"ValueError: API_PASSWORD",
                   "ValueError: LLM_SERVICE_API_KEY"}

\* C7 as stated: with API_PASSWORD or LLM_SERVICE_API_KEY unset or empty,
\* start-up ends with a raised ValueError, and uvicorn.run is never reached.
C7_AsStated ==
    ConfigurationMissing =>
        /\ spc.line \notin {"uvicorn_run", "listening"}
        /\ Ended => EndedByValueError

\* C7 as amended: with API_PASSWORD or LLM_SERVICE_API_KEY unset or empty,
\* uvicorn.run is never reached, and start-up ends with a raised ValueError
\* (naming API_PASSWORD if that one is missing, else LLM_SERVICE_API_KEY),
\* except that factor.py given a command line that argparse ends (--help,
\* or an invalid port) ends with argparse's SystemExit before either
\* variable is read.
C7_StartupRefused ==
    ConfigurationMissing =>
        /\ spc.line \notin {"uvicorn_run", "listening"}
        /\ Ended =>
             \/ /\ entry = "factor.py"
                /\ argv \in {<<"-p", "abc">>, <<"--help">>}
                /\ spc.error \in {"SystemExit(2)", "SystemExit(0)"}
             \/ /\ Missing("API_PASSWORD")
                /\ spc.error = "ValueError: API_PASSWORD"
             \/ /\ ~Missing("API_PASSWORD")
                /\ spc.error = "ValueError: LLM_SERVICE_API_KEY"

\* A child of server.py with the password set and an empty key ends with
\* the ValueError of create_llm_model.
C7_Witness ==
    /\ entry = "start_calculator_agent"
    /\ env = [API_PASSWORD |-> "s3cret", LLM_SERVICE_API_KEY |-> ""]
    /\ spc.line = "exited"
    /\ spc.error = "ValueError: LLM_SERVICE_API_KEY"

-----------------------------------------------------------------------------
(***************************************************************************)
(* What the claims about main() speak of.                                  *)
(***************************************************************************)
Interruptions == 1..Len(hist.interrupted_at)

\* An interrupt arrived when a child had been started (any statement after
\* calculator_process.start()).
InterruptedAfterStart ==
    \E k \in Interruptions : hist.interrupted_at[k] # "start_calculator"

InterruptedInTry ==
    \E k \in Interruptions : hist.interrupted_at[k] \in InTry

\* C8 as stated: when main() is over after an interrupt that arrived at any
\* point after a child was started, it is over by sys.exit(0), terminate()
\* was called on every started child and every started child has exited.
C8_AsStated ==
    (pc \in MainEnded /\ InterruptedAfterStart) =>
        /\ pc = "exit_0"
        /\ \A c \in Children :
               Started(c) => (c \in hist.terminate_called /\ Dead(c))

\* C9: the two agents are separate processes on ports 9000 and 9001; the
\* parent signals a child only in the interrupt handler, so a child that
\* fails, crashes or blocks does not end the other; and the parent goes on
\* to start the factor agent whatever has become of the calculator.
C9_Isolated ==
    /\ child["calculator"].port = 9000
    /\ child["factor"].port = 9001
    /\ \A c \in Children :
           (child[c].sigterm \/ c \in hist.terminate_called) => InterruptedInTry
    /\ \A c \in Children :
           child[c].state = "terminated" => c \in hist.terminate_called
    /\ pc = "sleep" => ENABLED Sleep
    /\ pc = "start_factor" => ENABLED StartFactor
    /\ pc \in (InTry \cup {"returned", "exit_0"} \cup OutsideTry)
                  \ {"start_calculator", "sleep", "start_factor"}
           => Started("factor")

\* The calculator's start-up failed; the factor agent was started and
\* serves, and the parent, not interrupted, waits for it.
C9_Witness ==
    /\ pc = "join_factor"
    /\ interrupts = 0
    /\ child["calculator"].state = "failed"
    /\ child["factor"].state = "serving"
    /\ ~child["factor"].sigterm

=============================================================================
